---- MODULE Spec2Model ----
(***************************************************************************)
(* Model of cdqag/action-semver: the bump classifier and the pre-release    *)
(* suffixer (logic.ts), the policy enumeration (types.ts), the version     *)
(* resolver main (main.ts) and the hosting-API client (GitHubClient.ts).   *)
(*                                                                         *)
(* Strings the program only copies are TLA+ strings.  A string the program *)
(* hands to the semver library is a record [txt, sv]: its text and what    *)
(* the library parses out of it (Null when it is not valid semver).  A     *)
(* commit message is a record [message, startsMerge, parsed]: its text,    *)
(* whether /(^Merge )/ matches it, and what the conventional-commits       *)
(* parser makes of it (Null when the parser throws).  core.info and        *)
(* core.debug only log and are left out.                                   *)
(***************************************************************************)
EXTENDS Integers, Sequences, FiniteSets, TLC

VARIABLES
  pc,                \* position of the run: see Init, StartMain and the actions
  inputs,            \* the parameters of main
  sha,               \* context.sha, the revision that triggered the run
  reactionEnum,      \* notConventionalCommitsReactionEnum
  latestReleaseTag,  \* main's latestReleaseTag
  commits,           \* the commit list handed to the classifier / fetched by main
  cls,               \* what getBumpTypeFromCommits returned (NotInvoked before)
  bumpType,          \* main's bumpType
  currentVersion,    \* main's currentVersion
  newVersion,        \* main's newVersion
  newMajorVersion,   \* main's newMajorVersion
  defaultBranch,     \* main's defaultBranch
  outputs,           \* core.setOutput calls, in order: <<name, value>>
  failed,            \* core.setFailed calls, in order: the messages
  warnings,          \* core.warning calls, in order: the messages
  parserCalls,       \* cc.parser calls, in order: the messages parsed
  calls,             \* collaborator calls made by main, in order
  pager              \* getListOfCommitsBetween: its locals and the hosting API it asks

vars == <<pc, inputs, sha, reactionEnum, latestReleaseTag, commits, cls, bumpType,
          currentVersion, newVersion, newMajorVersion, defaultBranch, outputs,
          failed, warnings, parserCalls, calls, pager>>

------------------------------------------------------------------------------
(* Bounds *)

\* longest commit sequence handed to the classifier on its own
MaxCommits == 3
\* longest commit list the hosting API returns to main
MaxFetched == 2
\* the largest component of a version handed to the suffixer on its own
MaxPart == 3
\* the last page getListOfCommitsBetween is followed to
MaxPage == 3

------------------------------------------------------------------------------
(* Values *)

\* JavaScript null
Null == [null |-> TRUE]
\* JavaScript undefined and null, where a ReleaseType is expected
Undefined == "undefined"
NullBump == "null"
\* a call that returned v, a call that threw
Return(v) == [threw |-> FALSE, value |-> v]
Throw == [threw |-> TRUE]
\* the classifier has not returned (yet)
NotInvoked == [ret |-> "not-invoked"]
\* getListOfCommitsBetween is not followed page by page
NoPager == [running |-> FALSE]

\* String.prototype.toLowerCase on the strings of the model
ToLowerCase(s) ==
  CASE s = "Feature" -> "feature"
    [] s = "FEAT" -> "feat"
    [] s = "WARN" -> "warn"
    [] s = "Error" -> "error"
    [] OTHER -> s

RECURSIVE SeqsUpTo(_, _)
\* all sequences over S of length at most n
SeqsUpTo(S, n) ==
  IF n = 0 THEN {<<>>}
  ELSE LET shorter == SeqsUpTo(S, n - 1)
       IN shorter \cup {Append(s, x) : s \in {t \in shorter : Len(t) = n - 1}, x \in S}

------------------------------------------------------------------------------
(* types.ts *)

ERROR == "error"
WARN == "warn"
IGNORE == "ignore"
NotConventionalCommitsReaction == {ERROR, WARN, IGNORE}

\* mutant: the value is compared as it is written
getNotConventionalCommitsReactionEnumFromString_caseSensitive(value) ==
  CASE value = "error" -> Return(ERROR)
    [] value = "warn" -> Return(WARN)
    [] value = "ignore" -> Return(IGNORE)
    [] OTHER -> Throw

getNotConventionalCommitsReactionEnumFromString(value) ==
  CASE ToLowerCase(value) = "error" -> Return(ERROR)
    [] ToLowerCase(value) = "warn" -> Return(WARN)
    [] ToLowerCase(value) = "ignore" -> Return(IGNORE)
    [] OTHER -> Throw

------------------------------------------------------------------------------
(* Commit messages *)

Note(title, text) == [title |-> title, text |-> text]
Parsed(type, notes) == [type |-> type, notes |-> notes]
Commit(message, startsMerge, parsed) ==
  [message |-> message, startsMerge |-> startsMerge, parsed |-> parsed]

\* A message that starts with "Merge " has no type followed by "(", "!" or ":",
\* so the parser would reject it; the others are the messages of logic.spec.ts.
Messages ==
  { Commit("Merge branch feature into main", TRUE, Null),
    Commit("Add some new features", FALSE, Null),
    Commit("feat: add user dashboard", FALSE, Parsed("feat", <<>>)),
    Commit("Feature: dark mode", FALSE, Parsed("Feature", <<>>)),
    Commit("fix: update user model", FALSE, Parsed("fix", <<>>)),
    Commit("refactor!: drop old api", FALSE,
           Parsed("refactor", <<Note("BREAKING CHANGE", "drop old api")>>)) }

------------------------------------------------------------------------------
(* logic.ts: the bump classifier *)

BREAKING_CHANGE == "BREAKING CHANGE"
\* mutant: the alias 'feature' is forgotten
MINOR_LIST_featOnly == {"feat"}
MINOR_LIST == {"feat", "feature"}

\* mutant: merge commits are not skipped
IgnoreMessage_never(commit) == FALSE
\* IGNORE_MESSAGE_PATTERN.test(commit.message)
IgnoreMessage(commit) == commit.startsMerge

noteHasBreakingChange(note) == note.title = BREAKING_CHANGE

\* commitMessage.notes.some(noteHasBreakingChange)
SomeNoteHasBreakingChange(notes) ==
  \E n \in 1..Len(notes) : noteHasBreakingChange(notes[n])

\* MINOR_LIST.includes(commitMessageType)
IsMinorType(commitMessageType) == commitMessageType \in MINOR_LIST

NotConventionalMessage(commit) ==
  "Commit message not in conventional-commits format: '" \o commit.message \o "'"

\* the locals and the effects of one call, before the loop
ClassifierStart ==
  [bumpMajor |-> FALSE, bumpMinor |-> FALSE, returned |-> FALSE,
   failed |-> <<>>, warnings |-> <<>>, parserCalls |-> <<>>]

\* mutant: each parsed message sets both flags anew
OnParsed_lastWins(st, commitMessage) ==
  [st EXCEPT !.bumpMajor = SomeNoteHasBreakingChange(commitMessage.notes),
             !.bumpMinor = IsMinorType(ToLowerCase(commitMessage.type))]

\* the try block, for a message the parser accepts
OnParsed(st, commitMessage) ==
  IF SomeNoteHasBreakingChange(commitMessage.notes)
  THEN [st EXCEPT !.bumpMajor = TRUE]
  ELSE IF IsMinorType(ToLowerCase(commitMessage.type))
  THEN [st EXCEPT !.bumpMinor = TRUE]
  ELSE st

\* mutant: the ERROR policy reports the failure and goes on with the next commit
OnParseError_noReturn(st, commit, reaction) ==
  IF reaction = ERROR
  THEN [st EXCEPT !.failed = Append(@, "Commit message not in conventional-commits format: '"
                                        \o commit.message \o "'")]
  ELSE IF reaction = WARN
  THEN [st EXCEPT !.warnings = Append(@, "Commit message not in conventional-commits format: '"
                                          \o commit.message \o "'")]
  ELSE st

\* mutant: the IGNORE policy warns like the WARN policy
OnParseError_ignoreWarns(st, commit, reaction) ==
  IF reaction = ERROR
  THEN [st EXCEPT !.failed = Append(@, "Commit message not in conventional-commits format: '"
                                        \o commit.message \o "'"),
                  !.returned = TRUE]
  ELSE [st EXCEPT !.warnings = Append(@, "Commit message not in conventional-commits format: '"
                                          \o commit.message \o "'")]

\* the catch block, for a message the parser rejects
OnParseError(st, commit, reaction) ==
  IF reaction = ERROR
  THEN [st EXCEPT !.failed = Append(@, NotConventionalMessage(commit)),
                  !.returned = TRUE]
  ELSE IF reaction = WARN
  THEN [st EXCEPT !.warnings = Append(@, NotConventionalMessage(commit))]
  ELSE st

\* one iteration of the for loop
LoopBody(st, commit, reaction) ==
  IF IgnoreMessage(commit) THEN st
  ELSE LET called == [st EXCEPT !.parserCalls = Append(@, commit.message)]
       IN IF commit.parsed # Null
          THEN OnParsed(called, commit.parsed)
          ELSE OnParseError(called, commit, reaction)

RECURSIVE Loop(_, _, _, _)
\* the for loop from its i-th commit on; it ends at the list's end or at the return
Loop(list, reaction, i, st) ==
  IF i > Len(list) \/ st.returned THEN st
  ELSE Loop(list, reaction, i + 1, LoopBody(st, list[i], reaction))

\* mutant: the minor flag is looked at before the major flag
FinalBump_minorFirst(st) ==
  IF st.bumpMinor THEN "minor" ELSE IF st.bumpMajor THEN "major" ELSE "patch"

\* the final return statement
FinalBump(st) ==
  IF st.bumpMajor THEN "major" ELSE IF st.bumpMinor THEN "minor" ELSE "patch"

\* the value returned and the effects of the call
getBumpTypeFromCommits(list, reaction) ==
  LET st == Loop(list, reaction, 1, ClassifierStart)
  IN [ret |-> IF st.returned THEN Undefined ELSE FinalBump(st),
      failed |-> st.failed, warnings |-> st.warnings, parserCalls |-> st.parserCalls]

------------------------------------------------------------------------------
(* The semver library, as main uses it *)

SemVer(major, minor, patch, pre) ==
  [major |-> major, minor |-> minor, patch |-> patch, pre |-> pre]

\* SemVer.format: major.minor.patch, then "-" and the pre-release when there is one
Format(sv) ==
  ToString(sv.major) \o "." \o ToString(sv.minor) \o "." \o ToString(sv.patch)
    \o (IF sv.pre = "" THEN "" ELSE "-" \o sv.pre)

\* a string that is valid semver after the prefix ("" or "v"), and one that is not
Text(prefix, sv) == [txt |-> prefix \o Format(sv), sv |-> sv]
NotSemver(txt) == [txt |-> txt, sv |-> Null]
EmptyText == NotSemver("")

\* a JavaScript string or null in a condition
Truthy(v) == v # Null /\ v.txt # ""

\* semver.valid: the normalised version (no prefix), or null
semverValid(v) == IF v = Null \/ v.sv = Null THEN Null ELSE Text("", v.sv)

\* SemVer.inc for the release types major, minor and patch: a pre-release version
\* is bumped to the release it precedes whenever that release is of the asked kind
IncSemVer(sv, release) ==
  CASE release = "major" ->
         SemVer(IF sv.minor # 0 \/ sv.patch # 0 \/ sv.pre = ""
                THEN sv.major + 1 ELSE sv.major, 0, 0, "")
    [] release = "minor" ->
         SemVer(sv.major,
                IF sv.patch # 0 \/ sv.pre = "" THEN sv.minor + 1 ELSE sv.minor, 0, "")
    [] release = "patch" ->
         SemVer(sv.major, sv.minor,
                IF sv.pre = "" THEN sv.patch + 1 ELSE sv.patch, "")

\* semver.inc: the incremented version, or null when the version or the release
\* type is invalid
semverInc(v, release) ==
  IF v = Null \/ v.sv = Null \/ release \notin {"major", "minor", "patch"}
  THEN Null
  ELSE Text("", IncSemVer(v.sv, release))

\* semver.major
semverMajor(v) == v.sv.major

------------------------------------------------------------------------------
(* logic.ts: the pre-release suffixer *)

ShortHashLen == 7

RECURSIVE Join(_)
\* the string made of a sequence of characters
Join(chars) == IF chars = <<>> THEN "" ELSE Head(chars) \o Join(Tail(chars))

\* context.sha.substring(0, 7)
ShortHash(revision) ==
  Join(SubSeq(revision, 1, IF Len(revision) < ShortHashLen THEN Len(revision)
                           ELSE ShortHashLen))

\* a suffixer that appends the whole SHA
suffixWithPreRelease_fullHash(version, glue, revision) ==
  NotSemver(version.txt \o glue \o Join(revision))

\* the suffixed version is only written out: its semver reading is never asked for
suffixWithPreRelease(version, glue, revision) ==
  NotSemver(version.txt \o glue \o ShortHash(revision))

------------------------------------------------------------------------------
(* The classifier on its own: any commit sequence, any policy *)

InitClassify ==
  /\ pc = "classify"
  /\ commits \in SeqsUpTo(Messages, MaxCommits)
  /\ reactionEnum \in NotConventionalCommitsReaction
  /\ inputs = Null
  /\ sha = <<>>
  /\ latestReleaseTag = Null
  /\ cls = NotInvoked
  /\ bumpType = NullBump
  /\ currentVersion = EmptyText
  /\ newVersion = EmptyText
  /\ newMajorVersion = 0
  /\ defaultBranch = ""
  /\ outputs = <<>>
  /\ failed = <<>>
  /\ warnings = <<>>
  /\ parserCalls = <<>>
  /\ calls = <<>>
  /\ pager = NoPager

\* one call of getBumpTypeFromCommits(commits, reactionEnum)
Classify ==
  /\ pc = "classify"
  /\ LET r == getBumpTypeFromCommits(commits, reactionEnum)
     IN /\ cls' = [ret |-> r.ret]
        /\ failed' = failed \o r.failed
        /\ warnings' = warnings \o r.warnings
        /\ parserCalls' = parserCalls \o r.parserCalls
  /\ pc' = "classified"
  /\ UNCHANGED <<inputs, sha, reactionEnum, latestReleaseTag, commits, bumpType,
                 currentVersion, newVersion, newMajorVersion, defaultBranch,
                 outputs, calls, pager>>

NextClassify == Classify

SpecClassify == InitClassify /\ [][NextClassify]_vars

------------------------------------------------------------------------------
(* github/GitHubClient.ts, as main sees it: what each call makes of the hosting
   API's answer *)

\* mutant: every error is taken for "no release"
getLatestReleaseTag_nullOnError(response) ==
  IF response.status = 200 THEN Return(response.tag_name) ELSE Return(Null)

\* getLatestReleaseTag: the tag name, null on 404, any other error rethrown
getLatestReleaseTag(response) ==
  IF response.status = 200 THEN Return(response.tag_name)
  ELSE IF response.status = 404 THEN Return(Null)
  ELSE Throw

\* getDefaultBranchName: the default branch, any error thrown on
getDefaultBranchName(response) ==
  IF response.status = 200 THEN Return(response.default_branch) ELSE Throw

------------------------------------------------------------------------------
(* main.ts *)

TargetBranches == {"refs/heads/main", "main", "refs/heads/develop"}
Reactions == {"error", "warn", "ignore", "WARN", "silent"}
InitReleaseVersions == {Text("v", SemVer(0, 1, 0, "")), NotSemver("invalid-version")}
Glues == {"-", "+dev"}
Revisions ==
  { <<"a", "b", "c", "d", "e", "f", "1", "2", "3", "4", "5", "6", "7", "8", "9", "0">>,
    <<"0", "1", "2", "3", "4", "5", "6", "7", "8", "9", "a", "b", "c", "d", "e", "f">> }

\* the parameters of main that its logic reads
Inputs ==
  [targetBranch : TargetBranches, notConventionalCommitsReaction : Reactions,
   initReleaseVersion : InitReleaseVersions, preReleaseVersionGlue : Glues]

\* the answers of the hosting API
Tags ==
  {Text("v", SemVer(1, 2, 3, "")), Text("v", SemVer(2, 0, 0, "rc.1")),
   Text("", SemVer(1, 1, 0, "beta")), NotSemver("invalid-tag")}
LatestReleaseResponses ==
  {[status |-> 200, tag_name |-> t] : t \in Tags} \cup {[status |-> 404], [status |-> 500]}
CommitsResults == {Return(list) : list \in SeqsUpTo(Messages, MaxFetched)} \cup {Throw}
DefaultBranchResponses ==
  {[status |-> 200, default_branch |-> b] : b \in {"main", "develop"}}
    \cup {[status |-> 500]}

Init ==
  /\ pc = "start"
  /\ inputs \in Inputs
  /\ sha \in Revisions
  /\ reactionEnum = "unset"
  /\ latestReleaseTag = Null
  /\ commits = <<>>
  /\ cls = NotInvoked
  /\ bumpType = NullBump
  /\ currentVersion = EmptyText
  /\ newVersion = EmptyText
  /\ newMajorVersion = 0
  /\ defaultBranch = ""
  /\ outputs = <<>>
  /\ failed = <<>>
  /\ warnings = <<>>
  /\ parserCalls = <<>>
  /\ calls = <<>>
  /\ pager = NoPager

\* mutant: the message does not say which tag
InvalidTagMessage_unnamed(tag) ==
  "Latest release tag is not a valid semver version. "
    \o "Please ensure your latest release tag follows semver format."

InvalidTagMessage(tag) ==
  "Latest release tag (" \o tag.txt \o ") is not a valid semver version. "
    \o "Please ensure your latest release tag follows semver format."

\* mutant: the message names the tag only
CommitsFailedMessage_tagOnly(tag, targetBranch) ==
  "Failed to get the list of commits since " \o tag.txt
    \o ". Please ensure the target branch exists."

CommitsFailedMessage(tag, targetBranch) ==
  "Failed to get the list of commits between " \o tag.txt \o " and " \o targetBranch
    \o ". Please ensure the target branch exists."
IncrementFailedMessage ==
  "Failed to increment version. Please check the current version and bump type."

\* mutant: the message does not say which initial version
InvalidInitMessage_unnamed(initReleaseVersion) ==
  "No valid latest release tag found and the provided initial version "
    \o "is not a valid semver version."

InvalidInitMessage(initReleaseVersion) ==
  "No valid latest release tag found and the provided initial version ("
    \o initReleaseVersion.txt \o ") is not a valid semver version."

\* mutant: the missing tag is written out as the text of null
OrEmpty_nullText(tag) == IF tag = Null THEN "null" ELSE tag.txt

\* latestReleaseTag ?? ''
OrEmpty(tag) == IF tag = Null THEN "" ELSE tag.txt

\* mutant: the classifier's answer is dropped
DefaultToPatch_always(b) == "patch"

\* mutant: a missing bump type is left missing
DefaultToPatch_never(b) == b

\* if (!bumpType) bumpType = 'patch'
DefaultToPatch(b) == IF b \in {NullBump, Undefined, ""} THEN "patch" ELSE b

\* mutant: the target is compared with the branch name, not with its reference
IsPreRelease_nameOnly(targetBranch, branch) == targetBranch # branch

\* targetBranch !== defaultBranchRef
IsPreRelease(targetBranch, branch) == targetBranch # "refs/heads/" \o branch

\* the conversion of the policy, the client's construction and the first request
Begin ==
  /\ pc = "start"
  /\ LET e == getNotConventionalCommitsReactionEnumFromString(
                inputs.notConventionalCommitsReaction)
     IN IF e.threw
        THEN /\ pc' = "threw"
             /\ UNCHANGED <<reactionEnum, calls>>
        ELSE /\ reactionEnum' = e.value
             /\ calls' = Append(calls, "getLatestReleaseTag")
             /\ pc' = "awaitLatestReleaseTag"
  /\ UNCHANGED <<inputs, sha, latestReleaseTag, commits, cls, bumpType, currentVersion,
                 newVersion, newMajorVersion, defaultBranch, outputs, failed, warnings,
                 parserCalls, pager>>

\* mutant: the major is read from the current version when there is one
PublishCurrent_majorOfCurrent(cv, nv, outs, cs) ==
  /\ newVersion' = nv
  /\ outputs' = Append(outs, <<"current-version", cv.txt>>)
  /\ newMajorVersion' = IF cv.sv = Null THEN nv.sv.major ELSE cv.sv.major
  /\ calls' = Append(cs, "getDefaultBranchName")
  /\ pc' = "awaitDefaultBranch"

\* mutant: the default branch is asked for before current-version is written
PublishCurrent_unwritten(cv, nv, outs, cs) ==
  /\ newVersion' = nv
  /\ outputs' = outs
  /\ newMajorVersion' = semverMajor(nv)
  /\ calls' = Append(cs, "getDefaultBranchName")
  /\ pc' = "awaitDefaultBranch"

\* mutant: the current version, when there is one, is kept as the new version
PublishCurrent_keepsCurrent(cv, nv, outs, cs) ==
  /\ newVersion' = IF cv.sv = Null THEN nv ELSE cv
  /\ outputs' = Append(outs, <<"current-version", cv.txt>>)
  /\ newMajorVersion' = semverMajor(nv)
  /\ calls' = Append(cs, "getDefaultBranchName")
  /\ pc' = "awaitDefaultBranch"

\* the output of current-version, the major of the new version and the request for
\* the default branch, once the new version nv is known
PublishCurrent(cv, nv, outs, cs) ==
  /\ newVersion' = nv
  /\ outputs' = Append(outs, <<"current-version", cv.txt>>)
  /\ newMajorVersion' = semverMajor(nv)
  /\ calls' = Append(cs, "getDefaultBranchName")
  /\ pc' = "awaitDefaultBranch"

\* from the answer to getLatestReleaseTag to the next request or return
OnLatestReleaseTag(response) ==
  /\ pc = "awaitLatestReleaseTag"
  /\ LET r == getLatestReleaseTag(response)
     IN IF r.threw
        THEN /\ pc' = "threw"
             /\ UNCHANGED <<latestReleaseTag, currentVersion, newVersion,
                            newMajorVersion, outputs, failed, calls>>
        ELSE LET tag == r.value
                 outs == Append(outputs, <<"latest-release-tag", OrEmpty(tag)>>)
             IN /\ latestReleaseTag' = tag
                /\ IF Truthy(tag)
                   THEN /\ currentVersion' = semverValid(tag)
                        /\ outputs' = outs
                        /\ UNCHANGED <<newVersion, newMajorVersion>>
                        /\ IF ~Truthy(semverValid(tag))
                           THEN /\ failed' = Append(failed, InvalidTagMessage(tag))
                                /\ pc' = "returned"
                                /\ UNCHANGED calls
                           ELSE /\ calls' = Append(calls, "getListOfCommitsBetween")
                                /\ pc' = "awaitCommits"
                                /\ UNCHANGED failed
                   ELSE LET nv == semverValid(inputs.initReleaseVersion)
                        IN /\ UNCHANGED currentVersion
                           /\ IF ~Truthy(nv)
                              THEN /\ newVersion' = nv
                                   /\ outputs' = outs
                                   /\ failed' = Append(failed,
                                        InvalidInitMessage(inputs.initReleaseVersion))
                                   /\ pc' = "returned"
                                   /\ UNCHANGED <<newMajorVersion, calls>>
                              ELSE /\ PublishCurrent(currentVersion, nv, outs, calls)
                                   /\ UNCHANGED failed
  /\ UNCHANGED <<inputs, sha, reactionEnum, commits, cls, bumpType, defaultBranch,
                 warnings, parserCalls, pager>>

\* from the outcome of getListOfCommitsBetween to the next request or return
OnCommits(result) ==
  /\ pc = "awaitCommits"
  /\ IF result.threw
     THEN /\ failed' = Append(failed,
               CommitsFailedMessage(latestReleaseTag, inputs.targetBranch))
          /\ pc' = "returned"
          /\ UNCHANGED <<commits, cls, bumpType, newVersion, newMajorVersion, outputs,
                         warnings, parserCalls, calls>>
     ELSE LET list == result.value
              invoked == Len(list) # 0
              r == IF invoked THEN getBumpTypeFromCommits(list, reactionEnum)
                   ELSE [ret |-> NullBump, failed |-> <<>>, warnings |-> <<>>,
                         parserCalls |-> <<>>]
              cs == IF invoked THEN Append(calls, "getBumpTypeFromCommits") ELSE calls
              bt == DefaultToPatch(r.ret)
              nv == semverInc(currentVersion, bt)
          IN /\ commits' = list
             /\ cls' = IF invoked THEN [ret |-> r.ret] ELSE cls
             /\ warnings' = warnings \o r.warnings
             /\ parserCalls' = parserCalls \o r.parserCalls
             /\ bumpType' = bt
             /\ IF ~Truthy(nv)
                THEN /\ newVersion' = nv
                     /\ failed' = Append(failed \o r.failed, IncrementFailedMessage)
                     /\ pc' = "returned"
                     /\ calls' = cs
                     /\ UNCHANGED <<newMajorVersion, outputs>>
                ELSE /\ failed' = failed \o r.failed
                     /\ PublishCurrent(currentVersion, nv, outputs, cs)
  /\ UNCHANGED <<inputs, sha, reactionEnum, latestReleaseTag, currentVersion,
                 defaultBranch, pager>>

\* from the answer to getDefaultBranchName to the end of main
OnDefaultBranch(response) ==
  /\ pc = "awaitDefaultBranch"
  /\ LET r == getDefaultBranchName(response)
     IN IF r.threw
        THEN /\ pc' = "threw"
             /\ UNCHANGED <<defaultBranch, newVersion, outputs, calls>>
        ELSE LET pre == IsPreRelease(inputs.targetBranch, r.value)
                 nv == IF pre
                       THEN suffixWithPreRelease(newVersion,
                                                 inputs.preReleaseVersionGlue, sha)
                       ELSE newVersion
             IN /\ defaultBranch' = r.value
                /\ calls' = IF pre THEN Append(calls, "suffixWithPreRelease") ELSE calls
                /\ newVersion' = nv
                /\ outputs' = outputs \o <<<<"new-version", nv.txt>>,
                                           <<"new-major-version",
                                             ToString(newMajorVersion)>>>>
                /\ pc' = "done"
  /\ UNCHANGED <<inputs, sha, reactionEnum, latestReleaseTag, commits, cls, bumpType,
                 currentVersion, newMajorVersion, failed, warnings, parserCalls, pager>>

Next ==
  \/ Begin
  \/ \E response \in LatestReleaseResponses : OnLatestReleaseTag(response)
  \/ \E result \in CommitsResults : OnCommits(result)
  \/ \E response \in DefaultBranchResponses : OnDefaultBranch(response)

Spec == Init /\ [][Next]_vars

------------------------------------------------------------------------------
(* github/GitHubClient.ts: getListOfCommitsBetween page by page, from main's call
   of it for the release tag v1.2.3 to the end of main *)

\* const per_page = 100
per_page == 100

Min(a, b) == IF a < b THEN a ELSE b

\* the commit of the range at position i, as the client keeps it: { sha, message }
RangeCommit(i) ==
  [sha |-> i, message |-> "fix: update user model", startsMerge |-> FALSE,
   parsed |-> Parsed("fix", <<>>)]

\* the range of n commits, in the order the API lists them
Range(n) == [i \in 1..n |-> RangeCommit(i)]

\* The compare endpoint for one range.  resolvable: both endpoints exist.
\* total: the total_commits it reports.  served: the commits it hands out over its
\* pages, all of the range or only its first ones.  firstPage: 0 when its pages
\* are numbered from 0, 1 when they are numbered from 1 and page 0 is read as
\* page 1.  errorPage, errorStatus: the request it answers with an error (none
\* when errorPage = -1).
Totals == {0, 1, per_page - 1, per_page, per_page + 1, 2 * per_page, 2 * per_page + 1}
CompareApis ==
  {[resolvable |-> TRUE, total |-> n, served |-> n, firstPage |-> f,
    errorPage |-> -1, errorStatus |-> 404] : n \in Totals, f \in {0, 1}}
  \cup {[resolvable |-> TRUE, total |-> n, served |-> n, firstPage |-> f,
         errorPage |-> e, errorStatus |-> s] :
          n \in Totals, f \in {0, 1}, e \in {0, 1, 2}, s \in {404, 500}}
  \cup {[resolvable |-> TRUE, total |-> t[1], served |-> t[2], firstPage |-> f,
         errorPage |-> -1, errorStatus |-> 404] :
          t \in {u \in Totals \X Totals : u[2] < u[1]}, f \in {0, 1}}
  \cup {[resolvable |-> FALSE, total |-> 0, served |-> 0, firstPage |-> f,
         errorPage |-> -1, errorStatus |-> 404] : f \in {0, 1}}

\* octokit.rest.repos.compareCommitsWithBasehead({ basehead, page, per_page })
CompareCommitsWithBasehead(api, page) ==
  IF ~api.resolvable THEN [status |-> 404]
  ELSE IF page = api.errorPage THEN [status |-> api.errorStatus]
  ELSE LET index == IF api.firstPage = 0 \/ page = 0 THEN page ELSE page - 1
           from == index * per_page + 1
           to == Min((index + 1) * per_page, api.served)
       IN [status |-> 200, total_commits |-> api.total,
           commits |-> SubSeq(Range(api.served), from, to)]

Pending == [ret |-> "pending"]

\* the locals of getListOfCommitsBetween at its first request
PagerAtCall(api) ==
  [running |-> TRUE, api |-> api, listOfCommits |-> <<>>, total_commits |-> -1,
   page |-> 0, requested |-> <<>>, added |-> 0, outcome |-> Pending]

PagesInputs ==
  {i \in Inputs : /\ i.notConventionalCommitsReaction = "warn"
                  /\ i.initReleaseVersion.sv # Null}

\* main at its call of getListOfCommitsBetween(latestReleaseTag, targetBranch)
InitPages ==
  /\ pc = "awaitCommits"
  /\ inputs \in PagesInputs
  /\ sha \in Revisions
  /\ reactionEnum = WARN
  /\ latestReleaseTag = Text("v", SemVer(1, 2, 3, ""))
  /\ commits = <<>>
  /\ cls = NotInvoked
  /\ bumpType = NullBump
  /\ currentVersion = semverValid(latestReleaseTag)
  /\ newVersion = EmptyText
  /\ newMajorVersion = 0
  /\ defaultBranch = ""
  /\ outputs = << <<"latest-release-tag", "v1.2.3">> >>
  /\ failed = <<>>
  /\ warnings = <<>>
  /\ parserCalls = <<>>
  /\ calls = <<"getLatestReleaseTag", "getListOfCommitsBetween">>
  /\ pager \in {PagerAtCall(api) : api \in CompareApis}

\* mutant: the same page is asked for again
NextPage_same(page) == page

\* page++
NextPage(page) == page + 1

\* one turn of the while loop: the request of a page and what is made of the answer
FetchPage ==
  /\ pc = "awaitCommits"
  /\ pager.running
  /\ pager.outcome = Pending
  /\ pager.page <= MaxPage
  /\ LET response == CompareCommitsWithBasehead(pager.api, pager.page)
         requested == Append(pager.requested, pager.page)
     IN IF response.status = 200
        THEN LET list == pager.listOfCommits \o response.commits
                 total == response.total_commits
             IN pager' = [pager EXCEPT
                            !.requested = requested,
                            !.added = Len(response.commits),
                            !.listOfCommits = list,
                            !.total_commits = total,
                            !.page = IF Len(list) >= total THEN @ ELSE NextPage(@),
                            !.outcome = IF Len(list) >= total THEN Return(list) ELSE @]
        ELSE IF response.status = 404
        THEN pager' = [pager EXCEPT !.requested = requested, !.added = 0,
                                    !.outcome = Return(pager.listOfCommits)]
        ELSE pager' = [pager EXCEPT !.requested = requested, !.added = 0,
                                    !.outcome = Throw]
  /\ UNCHANGED <<pc, inputs, sha, reactionEnum, latestReleaseTag, commits, cls,
                 bumpType, currentVersion, newVersion, newMajorVersion, defaultBranch,
                 outputs, failed, warnings, parserCalls, calls>>

\* main resumes with what getListOfCommitsBetween returned or threw
Deliver ==
  /\ pager.running
  /\ pager.outcome # Pending
  /\ OnCommits(pager.outcome)

NextPages ==
  \/ FetchPage
  \/ Deliver
  \/ \E response \in DefaultBranchResponses : OnDefaultBranch(response)

SpecPages == InitPages /\ [][NextPages]_vars

\* every request of the loop is answered: the await of a page resumes
SpecPagesFair == SpecPages /\ WF_vars(FetchPage)

------------------------------------------------------------------------------
(* The suffixer on its own: any release version, any glue *)

SuffixVersions ==
  {Text("", SemVer(major, minor, patch, "")) :
     major \in 0..MaxPart, minor \in 0..MaxPart, patch \in 0..MaxPart}
SuffixGlues == Glues \cup {"-rc.", ""}

InitSuffix ==
  /\ pc = "suffix"
  /\ newVersion \in SuffixVersions
  /\ inputs \in [targetBranch : {"refs/heads/develop"},
                  notConventionalCommitsReaction : {"warn"},
                  initReleaseVersion : {Text("v", SemVer(0, 1, 0, ""))},
                  preReleaseVersionGlue : SuffixGlues]
  /\ sha \in Revisions
  /\ reactionEnum = "unset"
  /\ latestReleaseTag = Null
  /\ commits = <<>>
  /\ cls = NotInvoked
  /\ bumpType = NullBump
  /\ currentVersion = EmptyText
  /\ newMajorVersion = 0
  /\ defaultBranch = ""
  /\ outputs = <<>>
  /\ failed = <<>>
  /\ warnings = <<>>
  /\ parserCalls = <<>>
  /\ calls = <<>>
  /\ pager = NoPager

\* newVersion = suffixWithPreRelease(newVersion, preReleaseVersionGlue)
Suffix ==
  /\ pc = "suffix"
  /\ newVersion' = suffixWithPreRelease(newVersion, inputs.preReleaseVersionGlue, sha)
  /\ calls' = Append(calls, "suffixWithPreRelease")
  /\ pc' = "suffixed"
  /\ UNCHANGED <<inputs, sha, reactionEnum, latestReleaseTag, commits, cls, bumpType,
                 currentVersion, newMajorVersion, defaultBranch, outputs, failed,
                 warnings, parserCalls, pager>>

NextSuffix == Suffix

SpecSuffix == InitSuffix /\ [][NextSuffix]_vars

------------------------------------------------------------------------------
(* Claims about the classifier, checked under SpecClassify *)

\* what the claims say of a commit, read off the commit itself
IsMerge(c) == c.startsMerge
IsMalformed(c) == ~c.startsMerge /\ c.parsed = Null
IsBreaking(c) ==
  /\ ~c.startsMerge
  /\ c.parsed # Null
  /\ \E n \in 1..Len(c.parsed.notes) : c.parsed.notes[n].title = "BREAKING CHANGE"
IsFeature(c) ==
  /\ ~c.startsMerge
  /\ c.parsed # Null
  /\ ToLowerCase(c.parsed.type) \in {"feat", "feature"}
Diagnostic(c) ==
  "Commit message not in conventional-commits format: '" \o c.message \o "'"
Some(list, P(_)) == \E i \in 1..Len(list) : P(list[i])
\* the index of the first commit of the list that satisfies P
First(list, P(_)) ==
  CHOOSE i \in 1..Len(list) : P(list[i]) /\ \A j \in 1..(i - 1) : ~P(list[j])
RECURSIVE DiagnosticsOf(_)
\* the diagnostics of the malformed commits of a list, in order
DiagnosticsOf(list) ==
  IF list = <<>> THEN <<>>
  ELSE (IF IsMalformed(Head(list)) THEN <<Diagnostic(Head(list))>> ELSE <<>>)
         \o DiagnosticsOf(Tail(list))
RECURSIVE ParsedOf(_)
\* the messages of the commits of a list that are not merge commits, in order
ParsedOf(list) ==
  IF list = <<>> THEN <<>>
  ELSE (IF IsMerge(Head(list)) THEN <<>> ELSE <<Head(list).message>>)
         \o ParsedOf(Tail(list))
WellFormed(c) == ~IsMalformed(c)

\* C1: under WARN or IGNORE the result is 'major' if some non-merge commit parses
\* with a note titled 'BREAKING CHANGE', else 'minor' if some non-merge commit
\* parses with a type that lower-cases to 'feat' or 'feature', else 'patch'.
C1_BumpFromSignals ==
  (pc = "classified" /\ reactionEnum \in {WARN, IGNORE}) =>
    cls.ret = IF Some(commits, IsBreaking) THEN "major"
              ELSE IF Some(commits, IsFeature) THEN "minor"
              ELSE "patch"

C1_Witness ==
  /\ pc = "classified"
  /\ reactionEnum = WARN
  /\ cls.ret = "minor"
  /\ Some(commits, IsMerge)
  /\ Some(commits, IsMalformed)
  /\ \E i \in 1..Len(commits) : commits[i].parsed # Null /\ commits[i].parsed.type = "Feature"

\* C2 as stated: a sequence with a breaking-change commit is classified 'major',
\* whatever else it holds and under every policy.
C2_BreakingAlwaysMajor ==
  (pc = "classified" /\ Some(commits, IsBreaking)) => cls.ret = "major"

\* C2 amended: a sequence with a breaking-change commit is classified 'major'
\* wherever that commit stands and whatever follows it, unless the policy is ERROR
\* and the sequence holds a malformed non-merge commit (the call then aborts).
C2_BreakingMajorUnlessAborted ==
  (/\ pc = "classified"
   /\ Some(commits, IsBreaking)
   /\ ~(reactionEnum = ERROR /\ Some(commits, IsMalformed)))
    => cls.ret = "major"

C2_Witness ==
  /\ pc = "classified"
  /\ reactionEnum = ERROR
  /\ Len(commits) = 3
  /\ IsBreaking(commits[1])
  /\ IsFeature(commits[2])
  /\ IsMerge(commits[3])
  /\ cls.ret = "major"

\* C3: an empty sequence or one of merge commits only is classified 'patch' under
\* every policy, with no parser call, no warning and no failure.
C3_MergeOnlyIsPatch ==
  (pc = "classified" /\ \A i \in 1..Len(commits) : IsMerge(commits[i])) =>
    /\ cls.ret = "patch"
    /\ parserCalls = <<>>
    /\ warnings = <<>>
    /\ failed = <<>>

C3_Witness ==
  /\ pc = "classified"
  /\ reactionEnum = ERROR
  /\ Len(commits) = 2
  /\ \A i \in 1..Len(commits) : IsMerge(commits[i])
  /\ cls.ret = "patch"

\* C4: under ERROR the first malformed non-merge commit aborts the call: one
\* failure naming that commit, no warning, no parser call for a later commit, and
\* no bump type returned, whatever flags earlier commits had set.
C4_ErrorAbortsAtFirstMalformed ==
  (pc = "classified" /\ reactionEnum = ERROR /\ Some(commits, IsMalformed)) =>
    LET k == First(commits, IsMalformed)
    IN /\ cls.ret = Undefined
       /\ failed = <<Diagnostic(commits[k])>>
       /\ warnings = <<>>
       /\ parserCalls = ParsedOf(SubSeq(commits, 1, k))

C4_Witness ==
  /\ pc = "classified"
  /\ reactionEnum = ERROR
  /\ Len(commits) = 3
  /\ IsBreaking(commits[1])
  /\ IsMalformed(commits[2])
  /\ IsFeature(commits[3])
  /\ cls.ret = Undefined
  /\ Len(failed) = 1
  /\ Len(parserCalls) = 2

\* C5: under WARN each malformed non-merge commit gets one warning naming it, in
\* order; under IGNORE none does; under both no failure is raised and the result
\* is that of the sequence without its malformed commits.
C5_WarnAndIgnoreContinue ==
  (pc = "classified" /\ reactionEnum \in {WARN, IGNORE}) =>
    /\ failed = <<>>
    /\ warnings = IF reactionEnum = WARN THEN DiagnosticsOf(commits) ELSE <<>>
    /\ cls.ret = getBumpTypeFromCommits(SelectSeq(commits, WellFormed), reactionEnum).ret

C5_Witness ==
  /\ pc = "classified"
  /\ reactionEnum = WARN
  /\ Len(commits) = 3
  /\ IsMalformed(commits[1])
  /\ IsFeature(commits[2])
  /\ IsMalformed(commits[3])
  /\ Len(warnings) = 2
  /\ cls.ret = "minor"

------------------------------------------------------------------------------
(* Claims about main, checked under Spec *)

\* the values written to the output called name, in order
OutputsOf(outs, name) ==
  LET Value(o) == o[2]
      Named(o) == o[1] = name
      named == SelectSeq(outs, Named)
  IN [i \in 1..Len(named) |-> Value(named[i])]
IsVersionOutput(o) == o[1] \in {"new-version", "new-major-version"}
\* x.y.z, and the pre-release after a "-" when there is one
VersionText(major, minor, patch, pre) ==
  ToString(major) \o "." \o ToString(minor) \o "." \o ToString(patch)
    \o (IF pre = "" THEN "" ELSE "-" \o pre)
\* the increment the claims describe
ClaimedInc(sv, bump) ==
  CASE bump = "major" -> VersionText(sv.major + 1, 0, 0, "")
    [] bump = "minor" -> VersionText(sv.major, sv.minor + 1, 0, "")
    [] bump = "patch" -> VersionText(sv.major, sv.minor, sv.patch + 1, "")
HasValidTag == latestReleaseTag # Null /\ latestReleaseTag.sv # Null
Classified == cls.ret \in {"major", "minor", "patch"}
OnDefaultBranchRef == inputs.targetBranch = "refs/heads/" \o defaultBranch

\* C6: once the failure status is set, no 'new-version' and no
\* 'new-major-version' output is written any more.
C6_FailedIsTerminal ==
  [][failed # <<>> =>
       SelectSeq(outputs', IsVersionOutput) = SelectSeq(outputs, IsVersionOutput)]_vars

\* C7 as stated: with a valid release tag and a bump type from the classifier, the
\* unsuffixed new version is (M+1).0.0, M.(m+1).0 or M.m.(p+1) of the tag's
\* version, 'current-version' is the normalised tag, and on the default branch
\* 'new-version' is that unsuffixed version.
C7_IncrementByBump ==
  /\ (pc = "awaitDefaultBranch" /\ HasValidTag /\ Classified) =>
       /\ newVersion.txt = ClaimedInc(latestReleaseTag.sv, cls.ret)
       /\ OutputsOf(outputs, "current-version")
            = <<VersionText(latestReleaseTag.sv.major, latestReleaseTag.sv.minor,
                            latestReleaseTag.sv.patch, latestReleaseTag.sv.pre)>>
  /\ (pc = "done" /\ HasValidTag /\ Classified /\ OnDefaultBranchRef) =>
       OutputsOf(outputs, "new-version") = <<ClaimedInc(latestReleaseTag.sv, cls.ret)>>

\* C7 amended: the same, for a release tag without a pre-release component;
\* 'current-version' is the normalised tag for every valid tag.
C7_IncrementByBumpOfRelease ==
  /\ (pc = "awaitDefaultBranch" /\ HasValidTag /\ Classified) =>
       /\ latestReleaseTag.sv.pre = "" =>
            newVersion.txt = ClaimedInc(latestReleaseTag.sv, cls.ret)
       /\ OutputsOf(outputs, "current-version")
            = <<VersionText(latestReleaseTag.sv.major, latestReleaseTag.sv.minor,
                            latestReleaseTag.sv.patch, latestReleaseTag.sv.pre)>>
  /\ (/\ pc = "done" /\ HasValidTag /\ Classified /\ OnDefaultBranchRef
      /\ latestReleaseTag.sv.pre = "") =>
       OutputsOf(outputs, "new-version") = <<ClaimedInc(latestReleaseTag.sv, cls.ret)>>

C7_Witness ==
  /\ pc = "done"
  /\ HasValidTag
  /\ latestReleaseTag.txt = "v1.2.3"
  /\ commits # <<>>
  /\ cls.ret = "minor"
  /\ inputs.targetBranch = "refs/heads/main"
  /\ defaultBranch = "main"
  /\ OutputsOf(outputs, "current-version") = <<"1.2.3">>
  /\ OutputsOf(outputs, "new-version") = <<"1.3.0">>
  /\ OutputsOf(outputs, "new-major-version") = <<"1">>

C9_ShortNameIsDefaultBranch ==
  [][(pc = "awaitDefaultBranch" /\ pc' = "done" /\ inputs.targetBranch = defaultBranch')
       => OutputsOf(outputs', "new-version") = <<newVersion.txt>>]_vars

\* C10 as stated: 'new-major-version' is the major of the unsuffixed new version;
\* with a prior release it is the current major plus one exactly when the bump
\* type is 'major' and the current major otherwise; without one, the seed's major.
C10_MajorBeforeSuffix ==
  /\ pc = "awaitDefaultBranch" => newMajorVersion = newVersion.sv.major
  /\ pc = "done" =>
       /\ OutputsOf(outputs, "new-major-version") = <<ToString(newMajorVersion)>>
       /\ newMajorVersion =
            IF HasValidTag
            THEN latestReleaseTag.sv.major + (IF bumpType = "major" THEN 1 ELSE 0)
            ELSE inputs.initReleaseVersion.sv.major

\* C10 amended: the same, but a 'major' bump of a pre-release of an x.0.0 version
\* keeps the major x.
C10_MajorBeforeSuffixOfRelease ==
  /\ pc = "awaitDefaultBranch" => newMajorVersion = newVersion.sv.major
  /\ pc = "done" =>
       /\ OutputsOf(outputs, "new-major-version") = <<ToString(newMajorVersion)>>
       /\ newMajorVersion =
            IF HasValidTag
            THEN latestReleaseTag.sv.major
                   + (IF /\ bumpType = "major"
                         /\ ~(/\ latestReleaseTag.sv.pre # ""
                              /\ latestReleaseTag.sv.minor = 0
                              /\ latestReleaseTag.sv.patch = 0)
                      THEN 1 ELSE 0)
            ELSE inputs.initReleaseVersion.sv.major

C10_Witness ==
  /\ pc = "done"
  /\ HasValidTag
  /\ latestReleaseTag.txt = "v1.2.3"
  /\ bumpType = "major"
  /\ inputs.preReleaseVersionGlue = "+dev"
  /\ inputs.targetBranch = "refs/heads/develop"
  /\ defaultBranch = "main"
  /\ OutputsOf(outputs, "new-version") = <<"2.0.0+dev0123456">>
  /\ OutputsOf(outputs, "new-major-version") = <<"2">>

\* main has ended: it ran to its end, returned early, or threw
Ended == pc \in {"done", "returned", "threw"}

\* C18: a run that has ended without the failure status set has written each of
\* 'latest-release-tag', 'current-version', 'new-version', 'new-major-version'
\* exactly once, 'new-version' not empty and 'new-major-version' the decimal
\* text of an integer.
C18_AllOutputsUnlessFailed ==
  (Ended /\ failed = <<>>) =>
    /\ Len(OutputsOf(outputs, "latest-release-tag")) = 1
    /\ Len(OutputsOf(outputs, "current-version")) = 1
    /\ Len(OutputsOf(outputs, "new-version")) = 1
    /\ Len(OutputsOf(outputs, "new-major-version")) = 1
    /\ OutputsOf(outputs, "new-version")[1] # ""
    /\ newMajorVersion \in Nat
    /\ OutputsOf(outputs, "new-major-version")[1] = ToString(newMajorVersion)

\* the policy a string stands for, whatever its case; "none" for any other string
PolicyOf(value) ==
  CASE value \in {"error", "Error", "ERROR"} -> ERROR
    [] value \in {"warn", "Warn", "WARN"} -> WARN
    [] value \in {"ignore", "Ignore", "IGNORE"} -> IGNORE
    [] OTHER -> "none"

C20_SilentIgnores ==
  (pc # "start" /\ inputs.notConventionalCommitsReaction = "silent") =>
    /\ reactionEnum = IGNORE
    /\ warnings = <<>>
    /\ failed = <<>>
    /\ pc = "threw" => calls # <<>>

------------------------------------------------------------------------------
(* Claims about the suffixer, checked under SpecSuffix *)

\* the first seven characters of the triggering revision's SHA
FirstSeven ==
  sha[1] \o sha[2] \o sha[3] \o sha[4] \o sha[5] \o sha[6] \o sha[7]

------------------------------------------------------------------------------
(* Claims about main's paths, checked under Spec *)

NotCalled(name) == \A i \in 1..Len(calls) : calls[i] # name
NoOutput(name) == OutputsOf(outputs, name) = <<>>
\* main has passed the resolution of the new version and has not failed
Resolved == pc \in {"awaitDefaultBranch", "done"}

\* C12: with no prior release and a valid initial version, the initial version
\* without its leading 'v' is the new version: the commit range is not fetched,
\* the classifier is not invoked, 'latest-release-tag' and 'current-version' are
\* written as the empty string, and the new major version is the seed's major.
C12_SeedIsNewVersion ==
  (Resolved /\ latestReleaseTag = Null) =>
    LET seed == inputs.initReleaseVersion.sv
        text == VersionText(seed.major, seed.minor, seed.patch, seed.pre)
    IN /\ seed # Null
       /\ pc = "awaitDefaultBranch" => newVersion.txt = text
       /\ (pc = "done" /\ OnDefaultBranchRef) =>
            OutputsOf(outputs, "new-version") = <<text>>
       /\ NotCalled("getListOfCommitsBetween")
       /\ NotCalled("getBumpTypeFromCommits")
       /\ cls = NotInvoked /\ parserCalls = <<>> /\ bumpType = NullBump
       /\ OutputsOf(outputs, "latest-release-tag") = <<"">>
       /\ OutputsOf(outputs, "current-version") = <<"">>
       /\ newMajorVersion = seed.major
       /\ pc = "done" =>
            OutputsOf(outputs, "new-major-version") = <<ToString(seed.major)>>

C12_Witness ==
  /\ pc = "done"
  /\ latestReleaseTag = Null
  /\ inputs.initReleaseVersion.txt = "v0.1.0"
  /\ OnDefaultBranchRef
  /\ outputs = << <<"latest-release-tag", "">>, <<"current-version", "">>,
                  <<"new-version", "0.1.0">>, <<"new-major-version", "0">> >>

\* C13 as stated: when the commit range of a valid release tag comes back empty
\* the run goes on: the classifier is not invoked, the bump type is 'patch' and
\* the new version is the current one with the patch component incremented.
C13_EmptyRangeIncrementsPatch ==
  [][OnCommits(Return(<<>>)) =>
       /\ pc' = "awaitDefaultBranch" /\ failed' = <<>>
       /\ cls' = NotInvoked /\ parserCalls' = <<>>
       /\ \A i \in 1..Len(calls') : calls'[i] # "getBumpTypeFromCommits"
       /\ bumpType' = "patch"
       /\ newVersion'.txt = ClaimedInc(latestReleaseTag.sv, "patch")]_vars

\* C13 amended: the same when the release tag has no pre-release part; the patch
\* bump of a pre-release tag x.y.z-pre is x.y.z.
C13_EmptyRangeIncrementsPatchOfRelease ==
  [][OnCommits(Return(<<>>)) =>
       /\ pc' = "awaitDefaultBranch" /\ failed' = <<>>
       /\ cls' = NotInvoked /\ parserCalls' = <<>>
       /\ \A i \in 1..Len(calls') : calls'[i] # "getBumpTypeFromCommits"
       /\ bumpType' = "patch"
       /\ newVersion'.txt =
            IF latestReleaseTag.sv.pre = ""
            THEN ClaimedInc(latestReleaseTag.sv, "patch")
            ELSE VersionText(latestReleaseTag.sv.major, latestReleaseTag.sv.minor,
                             latestReleaseTag.sv.patch, "")]_vars

C13_Witness ==
  /\ pc = "done"
  /\ HasValidTag
  /\ latestReleaseTag.txt = "v1.2.3"
  /\ commits = <<>>
  /\ cls = NotInvoked
  /\ bumpType = "patch"
  /\ OnDefaultBranchRef
  /\ OutputsOf(outputs, "new-version") = <<"1.2.4">>

\* the latest release has a tag and the tag is not valid semver
HasInvalidTag == latestReleaseTag # Null /\ latestReleaseTag.sv = Null

\* C14: when the latest release tag is not valid semver, the run fails with a
\* message that names the tag, and 'latest-release-tag' stays the only output:
\* neither the commit range nor the default branch is fetched.
C14_InvalidTagFailsAtOnce ==
  HasInvalidTag =>
    /\ pc = "returned"
    /\ failed = <<"Latest release tag (" \o latestReleaseTag.txt
                    \o ") is not a valid semver version. Please ensure your latest"
                    \o " release tag follows semver format.">>
    /\ outputs = << <<"latest-release-tag", latestReleaseTag.txt>> >>
    /\ calls = <<"getLatestReleaseTag">>

C14_Witness ==
  /\ pc = "returned"
  /\ HasInvalidTag
  /\ latestReleaseTag.txt = "invalid-tag"
  /\ Len(failed) = 1
  /\ Len(outputs) = 1

\* the hosting API has answered that there is no release
NoRelease == pc \notin {"start", "awaitLatestReleaseTag"} /\ latestReleaseTag = Null
                /\ calls # <<>> /\ outputs # <<>>

\* C15: with no prior release and an initial version that is not valid semver,
\* the run fails with a message that names the initial version; none of
\* 'current-version', 'new-version', 'new-major-version' is written and the
\* default branch is not fetched.
C15_InvalidSeedFails ==
  (NoRelease /\ inputs.initReleaseVersion.sv = Null) =>
    /\ pc = "returned"
    /\ failed = <<"No valid latest release tag found and the provided initial version ("
                    \o inputs.initReleaseVersion.txt
                    \o ") is not a valid semver version.">>
    /\ NoOutput("current-version") /\ NoOutput("new-version")
    /\ NoOutput("new-major-version")
    /\ NotCalled("getDefaultBranchName")

C15_Witness ==
  /\ pc = "returned"
  /\ latestReleaseTag = Null
  /\ inputs.initReleaseVersion.txt = "invalid-version"
  /\ Len(failed) = 1
  /\ outputs = << <<"latest-release-tag", "">> >>

\* C16: when getListOfCommitsBetween throws, the run fails with a message that
\* names the release tag and the target branch, the classifier is not invoked
\* and none of 'current-version', 'new-version', 'new-major-version' is written.
C16_CommitsFailureFails ==
  [][OnCommits(Throw) =>
       /\ pc' = "returned"
       /\ failed' = <<"Failed to get the list of commits between "
                        \o latestReleaseTag.txt \o " and " \o inputs.targetBranch
                        \o ". Please ensure the target branch exists.">>
       /\ cls' = NotInvoked /\ parserCalls' = <<>>
       /\ \A i \in 1..Len(calls') : calls'[i] # "getBumpTypeFromCommits"
       /\ OutputsOf(outputs', "current-version") = <<>>
       /\ OutputsOf(outputs', "new-version") = <<>>
       /\ OutputsOf(outputs', "new-major-version") = <<>>]_vars

C16_Witness ==
  /\ pc = "returned"
  /\ HasValidTag
  /\ latestReleaseTag.txt = "v1.2.3"
  /\ inputs.targetBranch = "refs/heads/develop"
  /\ calls = <<"getLatestReleaseTag", "getListOfCommitsBetween">>
  /\ failed = <<"Failed to get the list of commits between v1.2.3 and "
                  \o "refs/heads/develop. Please ensure the target branch exists.">>

------------------------------------------------------------------------------
(* Claims about the commit range, checked under SpecPages *)

\* C17: when an endpoint of the range does not exist, getListOfCommitsBetween
\* throws and the run is marked failed: it does not return a commit list, and no
\* 'new-version' comes out of a patch bump.
C17_UnresolvableRangeFails ==
  (pager.running /\ ~pager.api.resolvable) =>
    /\ pager.outcome # Pending => pager.outcome = Throw
    /\ pc # "awaitCommits" => failed # <<>>
    /\ bumpType # "patch"
    /\ NoOutput("new-version")

\* the run the code makes of such a range: an empty list, a patch bump, 1.2.4
C17_Reached ==
  /\ pc = "done"
  /\ pager.running /\ ~pager.api.resolvable
  /\ pager.requested = <<0>>
  /\ pager.outcome = Return(<<>>)
  /\ failed = <<>>
  /\ bumpType = "patch"
  /\ OnDefaultBranchRef
  /\ OutputsOf(outputs, "new-version") = <<"1.2.4">>

------------------------------------------------------------------------------
(* Relations between classifications, checked under SpecClassify *)

NotMerge(commit) == ~commit.startsMerge
\* the classifier has aborted: it has set the failure status
Aborted(r) == r.failed # <<>>
\* the rearrangements of a list
Rearrangements(list) ==
  LET n == Len(list)
      bijections == {f \in [1..n -> 1..n] : \A i, j \in 1..n : f[i] = f[j] => i = j}
  IN {[i \in 1..n |-> list[f[i]]] : f \in bijections}

\* C21: the classification of a commit sequence is that of the sequence without
\* its messages that begin with "Merge ": the same bump type, and an abort under
\* the ERROR policy for the one exactly when for the other.
C21_MergesDoNotCount ==
  pc = "classified" =>
    LET without == getBumpTypeFromCommits(SelectSeq(commits, NotMerge), reactionEnum)
    IN /\ cls.ret = without.ret
       /\ (failed # <<>>) = Aborted(without)

C21_Witness ==
  /\ pc = "classified"
  /\ Len(commits) = 3
  /\ commits[1].startsMerge /\ commits[3].startsMerge
  /\ commits[2].message = "refactor!: drop old api"
  /\ reactionEnum = ERROR
  /\ cls.ret = "major"
  /\ failed = <<>>

\* C22: every rearrangement of a commit sequence is classified like the sequence:
\* the same bump type, and an abort under the ERROR policy for the one exactly
\* when for the other.
C22_OrderDoesNotCount ==
  pc = "classified" =>
    \A list \in Rearrangements(commits) :
      LET r == getBumpTypeFromCommits(list, reactionEnum)
      IN /\ r.ret = cls.ret
         /\ Aborted(r) = (failed # <<>>)

C22_Witness ==
  /\ pc = "classified"
  /\ Len(commits) = 3
  /\ commits[1].message = "fix: update user model"
  /\ commits[2].message = "Add some new features"
  /\ commits[3].message = "feat: add user dashboard"
  /\ reactionEnum = WARN
  /\ cls.ret = "minor"
  /\ Len(warnings) = 1

------------------------------------------------------------------------------
(* Claims about the pagination, checked under SpecPages *)

\* the endpoint hands out the whole range and answers no request with an error
ServesAll(api) == api.resolvable /\ api.errorPage = -1 /\ api.served = api.total

\* C23: from an endpoint that reports total_commits and hands out the range at
\* most 100 commits per page, with its first page numbered 0 or numbered 1 and
\* page 0 read as page 1, getListOfCommitsBetween returns every commit of the
\* range once, in the endpoint's order: total_commits commits in all.
C23_WholeRangeOnce ==
  (pager.running /\ ServesAll(pager.api) /\ pager.outcome # Pending) =>
    /\ ~pager.outcome.threw
    /\ Len(pager.outcome.value) = pager.api.total
    /\ \A i \in 1..Len(pager.outcome.value) : pager.outcome.value[i].sha = i

\* the list the code returns for 101 commits when page 0 is read as page 1
C23_Reached ==
  /\ pager.running /\ ServesAll(pager.api)
  /\ pager.api.total = per_page + 1 /\ pager.api.firstPage = 1
  /\ pager.requested = <<0, 1>>
  /\ ~pager.outcome.threw
  /\ Len(pager.outcome.value) = 2 * per_page
  /\ pager.outcome.value[per_page + 1].sha = 1

------------------------------------------------------------------------------
(* Claims about main's collaborators, checked under Spec *)

\* C24: getLatestReleaseTag gives null exactly when the hosting API answers 404
\* and the release's tag name when it answers with a release; any other error is
\* thrown on, and main then ends by throwing: it takes the initial version for the
\* new version only when the answer was 404.
C24_NoReleaseOnlyOn404 ==
  [][\A response \in LatestReleaseResponses :
       OnLatestReleaseTag(response) =>
         /\ response.status = 404 =>
              /\ pc' # "threw"
              /\ latestReleaseTag' = Null
              /\ OutputsOf(outputs', "latest-release-tag") = <<"">>
         /\ response.status = 200 =>
              /\ pc' # "threw"
              /\ latestReleaseTag' = response.tag_name
              /\ OutputsOf(outputs', "latest-release-tag") = <<response.tag_name.txt>>
         /\ response.status \notin {200, 404} =>
              /\ pc' = "threw"
              /\ latestReleaseTag' = latestReleaseTag
              /\ outputs' = <<>> /\ failed' = <<>>
         /\ newVersion' # newVersion => response.status = 404]_vars

C24_Witness ==
  /\ pc = "threw"
  /\ calls = <<"getLatestReleaseTag">>
  /\ latestReleaseTag = Null
  /\ newVersion = EmptyText
  /\ outputs = <<>>

\* C25: the failure status is set at most once in a run, with one message,
\* whichever of the fatal conditions are met: invalid tag, invalid initial
\* version, failed commit lookup, malformed commits under the ERROR policy,
\* failed increment.
C25_FailedAtMostOnce ==
  Len(failed) <= 1

C25_Witness ==
  /\ pc = "done"
  /\ reactionEnum = ERROR
  /\ Len(commits) = 2
  /\ commits[1].message = "Add some new features"
  /\ commits[2].message = "Add some new features"
  /\ cls.ret = Undefined
  /\ failed = <<"Commit message not in conventional-commits format: '"
                  \o "Add some new features" \o "'">>

\* a is after b in (major, minor, patch) order
Greater(a, b) ==
  \/ a.major > b.major
  \/ a.major = b.major /\ a.minor > b.minor
  \/ a.major = b.major /\ a.minor = b.minor /\ a.patch > b.patch
SameRelease(a, b) == a.major = b.major /\ a.minor = b.minor /\ a.patch = b.patch
\* the step that writes 'new-version' in a run with a valid release tag
EmitsAfterRelease == pc = "awaitDefaultBranch" /\ pc' = "done" /\ HasValidTag

\* C26 as stated: in a run with a valid release tag, the new version that is
\* written out is, before its suffix, after the current version in (major, minor,
\* patch) order.
C26_NewVersionAdvances ==
  [][EmitsAfterRelease => Greater(newVersion.sv, currentVersion.sv)]_vars

\* C26 amended: the same when the release tag has no pre-release part; after a
\* pre-release tag the new version is a release that is not before the tag in
\* (major, minor, patch) order, and it may have the tag's three components.
C26_NewVersionAdvancesFromRelease ==
  [][EmitsAfterRelease =>
       IF currentVersion.sv.pre = ""
       THEN Greater(newVersion.sv, currentVersion.sv)
       ELSE /\ newVersion.sv.pre = ""
            /\ \/ Greater(newVersion.sv, currentVersion.sv)
               \/ SameRelease(newVersion.sv, currentVersion.sv)]_vars

C26_Witness ==
  /\ pc = "done"
  /\ HasValidTag
  /\ latestReleaseTag.txt = "v1.2.3"
  /\ reactionEnum = ERROR
  /\ cls.ret = Undefined
  /\ bumpType = "patch"
  /\ OnDefaultBranchRef
  /\ OutputsOf(outputs, "current-version") = <<"1.2.3">>
  /\ OutputsOf(outputs, "new-version") = <<"1.2.4">>

------------------------------------------------------------------------------
(* The end of the pagination loop, checked under SpecPagesFair *)

\* the loop has ended: getListOfCommitsBetween has returned or thrown
LoopEnded == pager.outcome # Pending
\* the last answer was a page with no commit on it while fewer than total_commits
\* were gathered
Stalled ==
  /\ pager.outcome = Pending
  /\ pager.requested # <<>>
  /\ pager.added = 0
\* 0 before the first request, then the status of the last answer
LastStatus ==
  IF pager.requested = <<>> THEN 0
  ELSE IF ~pager.api.resolvable THEN 404
  ELSE IF pager.requested[Len(pager.requested)] = pager.api.errorPage
  THEN pager.api.errorStatus
  ELSE 200
\* what the loop does with the answers: page numbers 0, 1, 2, ... one by one, the
\* end as soon as total_commits commits are gathered, the commits gathered so far
\* on a 404, any other error thrown on
LoopSteps ==
  /\ pager.requested = [i \in 1..Len(pager.requested) |-> i - 1]
  /\ LastStatus = 0 => ~LoopEnded
  /\ LastStatus = 200 =>
       LoopEnded = (Len(pager.listOfCommits) >= pager.total_commits)
  /\ (LastStatus = 200 /\ LoopEnded) => pager.outcome = Return(pager.listOfCommits)
  /\ LastStatus = 404 => pager.outcome = Return(pager.listOfCommits)
  /\ LastStatus \notin {0, 200, 404} => pager.outcome = Throw

------------------------------------------------------------------------------
(* The order of main's calls, checked under Spec *)

IsCollaborator(name) == name # "suffixWithPreRelease"
\* the calls of main to the client and to the classifier, in order
Collaborators == SelectSeq(calls, IsCollaborator)
Called(name) == \E i \in 1..Len(calls) : calls[i] = name
OutputNames == [i \in 1..Len(outputs) |-> outputs[i][1]]

\* C28: main calls getLatestReleaseTag, then getListOfCommitsBetween (only with a
\* release tag that is valid semver), then the classifier (only on a fetched list
\* that is not empty, once, with the converted policy), then getDefaultBranchName
\* (only once the new version is known and 'current-version' written); when
\* getDefaultBranchName fails, 'latest-release-tag' and 'current-version' are the
\* only outputs of the run.
C28_CallsInOrder ==
  /\ Collaborators \in
       { <<>>,
         <<"getLatestReleaseTag">>,
         <<"getLatestReleaseTag", "getDefaultBranchName">>,
         <<"getLatestReleaseTag", "getListOfCommitsBetween">>,
         <<"getLatestReleaseTag", "getListOfCommitsBetween", "getDefaultBranchName">>,
         <<"getLatestReleaseTag", "getListOfCommitsBetween",
           "getBumpTypeFromCommits">>,
         <<"getLatestReleaseTag", "getListOfCommitsBetween",
           "getBumpTypeFromCommits", "getDefaultBranchName">> }
  /\ Called("getListOfCommitsBetween") => HasValidTag
  /\ Called("getBumpTypeFromCommits") =>
       /\ commits # <<>>
       /\ reactionEnum = PolicyOf(inputs.notConventionalCommitsReaction)
       /\ cls = [ret |-> getBumpTypeFromCommits(commits, reactionEnum).ret]
  /\ (pc \notin {"awaitCommits"} /\ Called("getListOfCommitsBetween")
        /\ commits = <<>>) => ~Called("getBumpTypeFromCommits")
  /\ Called("getDefaultBranchName") =>
       /\ newVersion # Null /\ newVersion # EmptyText
       /\ OutputsOf(outputs, "current-version") = <<currentVersion.txt>>
  /\ ~Called("getDefaultBranchName") =>
       /\ NoOutput("new-version") /\ NoOutput("new-major-version")
  /\ (pc = "threw" /\ Called("getDefaultBranchName")) =>
       OutputNames = <<"latest-release-tag", "current-version">>

C28_Witness ==
  /\ pc = "threw"
  /\ calls = <<"getLatestReleaseTag", "getListOfCommitsBetween",
               "getBumpTypeFromCommits", "getDefaultBranchName">>
  /\ latestReleaseTag.txt = "v1.2.3"
  /\ cls.ret = "minor"
  /\ newVersion.txt = "1.3.0"
  /\ outputs = << <<"latest-release-tag", "v1.2.3">>, <<"current-version", "1.2.3">> >>

====
